---- MODULE Spec2Model ----
(***************************************************************************)
(* Model of src/client/desktop/main.js: the background controller of the   *)
(* Windy Pro desktop client.  The module state of main.js (store,          *)
(* mainWindow, isRecording), the Electron objects it drives (the window    *)
(* list, the global shortcut table) and the event handlers it installs     *)
(* are modelled; each handler is one action, run to completion.            *)
(***************************************************************************)
EXTENDS Integers, Sequences, FiniteSets

\* ------------------------------------------------------------------ bounds
\* toggleRecording() calls per process run
MaxToggles == 2
\* windows created per process run
MaxWindows == 2
\* process runs of one installation
MaxRuns == 2
\* explicit quit requests (app-quit message, OS quit) per process run
MaxQuits == 2

\* --------------------------------------------------------------- constants
\* `let mainWindow = null`
NULL == 0
RecordCombo == "CommandOrControl+Shift+Space"
WindowCombo == "CommandOrControl+Shift+W"
PasteCombo == "CommandOrControl+Shift+V"
Combos == {RecordCombo, WindowCombo, PasteCombo}
DefaultHost == "127.0.0.1"
DefaultPort == 9876
Platforms == {"darwin", "linux"}

\* settings documents: every mapping from a subset of DocKeys to DocVals
DocKeys == {"language", "theme"}
DocVals == {"a"}
Docs == UNION {[K -> DocVals] : K \in SUBSET DocKeys}
EmptyDoc == [k \in {} |-> "a"]

\* server configurations an installation may have been provisioned with
StoredHosts == {"10.0.0.5"}
StoredPorts == {8080}

\* window geometry of createMainWindow()
WinWidth == 400
WinHeight == 600
MarginX == 420
MarginY == 620

\* work area sizes <<width, height>> of the primary display; the second is
\* smaller than the margins
MainDisplay == <<1920, 1080>>
Displays == {MainDisplay, <<400, 600>>}

\* payloads of transcript-for-paste, and what the system clipboard holds before
\* the application first writes it
Texts == {"", "hello"}
OtherClip == "copied elsewhere"

VARIABLES
  platform,       \* process.platform
  display,        \* screen.getPrimaryDisplay().workAreaSize as <<width, height>>
  clipboard,      \* text on the system clipboard
  store,          \* the persisted electron-store document: key path -> value
  run,            \* number of the current process run
  phase,          \* "launching" | "running" | "quitting" | "exited"
  mainWindow,     \* the module's window handle: NULL or a window id
  windows,        \* BrowserWindow.getAllWindows(): id -> [visible]
  created,        \* windows created so far in this run (ids are 1..created)
  isRecording,    \* the module's recording flag
  hk,             \* globalShortcut: bound combos, call log, failure reports
  sent,           \* webContents.send calls of this run, in order
  toggleLog,      \* history: the handle seen by each toggleRecording() call
  quitCalls,      \* history: app.quit() calls of this run
  lastSet,        \* history: {} or {the document of the last update-settings}
  uncaught,       \* an uncaught exception was thrown by a handler
  last            \* the event handled last and the reply it produced; for
                  \* "launch", the recording label the previous run ended with

vars == <<platform, display, clipboard, store, run, phase, mainWindow, windows, created,
          isRecording, hk, sent, toggleLog, quitCalls, lastSet,
          uncaught, last>>

NoReply == "none"
Ev(e) == [ev |-> e, ret |-> NoReply]
Reply(e, r) == [ev |-> e, ret |-> r]
\* a one-way message with a payload worth remembering
Recv(e, a) == [ev |-> e, ret |-> NoReply, arg |-> a]

\* ------------------------------------------------------------ Settings Store
\* store.get(key, default)
storeGet(s, key, default) ==
  IF key \in DOMAIN s THEN s[key] ELSE default

\* store.set(key, value) with a merging bug: keeps the fields of the old document
storeSet_merge(s, key, value) ==
  [k \in DOMAIN s \cup {key} |->
     IF k = key
       THEN IF key \in DOMAIN s
              THEN [f \in DOMAIN s[key] \cup DOMAIN value |->
                      IF f \in DOMAIN value THEN value[f] ELSE s[key][f]]
              ELSE value
       ELSE s[k]]

\* store.set(key, value)
storeSet(s, key, value) ==
  [k \in DOMAIN s \cup {key} |-> IF k = key THEN value ELSE s[k]]

\* new Store() that starts from an empty document instead of the persisted one
loadStore_fresh(disk) ==
  [k \in {} |-> NoReply]

\* `const store = new Store()`: opens the persisted document
loadStore(disk) ==
  disk

\* get-server-config that uses the stored pair only when both fields are stored
getServerConfig_allOrNothing(s) ==
  IF {"server.host", "server.port"} \subseteq DOMAIN s
    THEN [host |-> s["server.host"], port |-> s["server.port"]]
    ELSE [host |-> DefaultHost, port |-> DefaultPort]

\* ipcMain.handle('get-server-config')
getServerConfig(s) ==
  [host |-> storeGet(s, "server.host", DefaultHost),
   port |-> storeGet(s, "server.port", DefaultPort)]

\* ipcMain.handle('get-settings')
getSettings(s) ==
  storeGet(s, "settings", EmptyDoc)

\* update-settings that replaces the whole store (`store.store = settings`)
updateSettings_wholeStore(s, settings) ==
  [k \in {"settings"} |-> settings]

\* ipcMain.on('update-settings')
updateSettings(s, settings) ==
  storeSet(s, "settings", settings)

\* a transcript-for-paste handler that only logs
transcriptForPaste_logOnly(clip, text) ==
  clip

\* ipcMain.on('transcript-for-paste'): `if (text) clipboard.writeText(text)`;
\* the empty string is falsy
transcriptForPaste(clip, text) ==
  IF text # "" THEN text ELSE clip

\* ------------------------------------------------------------ Window Manager
allWindows == DOMAIN windows

\* createMainWindow() that places the window by its own size, not by the margins
createMainWindow_noMargin(wins, id, area) ==
  [w \in DOMAIN wins \cup {id} |->
     IF w = id
       THEN [visible |-> TRUE, width |-> WinWidth, height |-> WinHeight,
             x |-> area[1] - WinWidth, y |-> area[2] - WinHeight]
       ELSE wins[w]]

\* createMainWindow(): a new BrowserWindow of fixed size at the bottom right of
\* the work area, shown on creation; the handle is overwritten with it
createMainWindow(wins, id, area) ==
  [w \in DOMAIN wins \cup {id} |->
     IF w = id
       THEN [visible |-> TRUE, width |-> WinWidth, height |-> WinHeight,
             x |-> area[1] - MarginX, y |-> area[2] - MarginY]
       ELSE wins[w]]

\* the activate handler without its getAllWindows() check
activateCreates_always(wins) ==
  TRUE

\* app.on('activate'): `BrowserWindow.getAllWindows().length === 0`
activateCreates(wins) ==
  DOMAIN wins = {}

\* the 'closed' handler of a window: `mainWindow = null`
onClosed(handle) ==
  NULL

\* a window-all-closed handler that quits on every platform
windowAllClosedQuits_always(plat) ==
  TRUE

\* a window-all-closed handler that never quits
windowAllClosedQuits_never(plat) ==
  FALSE

\* the window-all-closed handler: does it call app.quit()?
windowAllClosedQuits(plat) ==
  plat # "darwin"

\* the toggle-window callback without its `if (mainWindow)` check:
\* null.isVisible() throws a TypeError
toggleWindow_unguarded(handle, wins) ==
  IF handle \in DOMAIN wins
    THEN [windows |-> [wins EXCEPT ![handle].visible = ~@], threw |-> FALSE]
    ELSE [windows |-> wins, threw |-> TRUE]

\* the callback bound to WindowCombo
toggleWindow(handle, wins) ==
  IF handle # NULL
    THEN [windows |-> [wins EXCEPT ![handle].visible = ~@], threw |-> FALSE]
    ELSE [windows |-> wins, threw |-> FALSE]

\* ---------------------------------------------------------- Hotkey Registrar
NoHotkeys == [bound |-> {}, regLog |-> <<>>, reported |-> {}, unregCalls |-> 0]

\* globalShortcut.register(combo, callback) when the OS accepts the combos in
\* free: binds at most once, returns success
register(h, combo, free) ==
  LET ok == combo \in free /\ combo \notin h.bound
  IN  [ok |-> ok,
       hk |-> [h EXCEPT !.bound = IF ok THEN @ \cup {combo} ELSE @,
                        !.regLog = Append(@, [combo |-> combo, ok |-> ok])]]

\* registerHotkeys() that gives up after a failed first registration
registerHotkeys_abort(h, free) ==
  LET r1 == register(h, RecordCombo, free)
  IN  IF ~r1.ok
        THEN [r1.hk EXCEPT !.reported = @ \cup {RecordCombo}]
        ELSE register(r1.hk, WindowCombo, free).hk

\* registerHotkeys() that also binds the reserved paste combination
registerHotkeys_withPaste(h, free) ==
  LET r1 == register(h, RecordCombo, free)
      h1 == IF ~r1.ok
              THEN [r1.hk EXCEPT !.reported = @ \cup {RecordCombo}]
              ELSE r1.hk
      r2 == register(h1, WindowCombo, free)
  IN  register(r2.hk, PasteCombo, free).hk

\* registerHotkeys()
registerHotkeys(h, free) ==
  LET r1 == register(h, RecordCombo, free)
      h1 == IF ~r1.ok
              THEN [r1.hk EXCEPT !.reported = @ \cup {RecordCombo}]
              ELSE r1.hk
      r2 == register(h1, WindowCombo, free)
  IN  r2.hk

\* globalShortcut.unregisterAll()
unregisterAll(h) ==
  [h EXCEPT !.bound = {}, !.unregCalls = @ + 1]

\* a will-quit handler that forgets the hotkeys
onWillQuit_skip(h) ==
  h

\* app.on('will-quit')
onWillQuit(h) ==
  unregisterAll(h)

\* ------------------------------------------------- Recording State Machine
\* the state label with its branches exchanged
Label_inverted(b) ==
  IF b THEN "idle" ELSE "listening"

\* `isRecording ? 'listening' : 'idle'`
Label(b) ==
  IF b THEN "listening" ELSE "idle"

Msg(to, channel, arg) == [to |-> to, channel |-> channel, arg |-> arg]

\* `isRecording = !isRecording` written as an assignment of true
flip_setTrue(b) ==
  TRUE

\* `isRecording = !isRecording`
flip(b) ==
  ~b

\* the two sends in the opposite order
notify_swapped(handle, out, b) ==
  IF handle # NULL
    THEN out \o <<Msg(handle, "state-change", Label(b)),
                  Msg(handle, "toggle-recording", b)>>
    ELSE out

\* the two sends without the `if (mainWindow)` check: messages for a missing
\* window are kept for the next one
notify_unguarded(handle, out, b) ==
  out \o <<Msg(handle, "toggle-recording", b),
           Msg(handle, "state-change", Label(b))>>

\* the body of `if (mainWindow) { ... }` in toggleRecording()
notify(handle, out, b) ==
  IF handle # NULL
    THEN out \o <<Msg(handle, "toggle-recording", b),
                  Msg(handle, "state-change", Label(b))>>
    ELSE out

\* toggleRecording()
toggleRecording(b, handle, out) ==
  LET nb == flip(b)
  IN  [isRecording |-> nb, sent |-> notify(handle, out, nb)]
\* ------------------------------------------------------------ app lifecycle
Alive == phase \in {"running", "quitting"}

\* app.quit(): ignored while a quit is in progress; with no window open the
\* will-quit handler runs and the process exits, otherwise the windows are
\* asked to close first
appQuit(ph, h, noWindows) ==
  IF ph = "quitting"
    THEN [phase |-> ph, hk |-> h]
    ELSE IF noWindows
           THEN [phase |-> "exited", hk |-> onWillQuit(h)]
           ELSE [phase |-> "quitting", hk |-> h]

\* what follows the 'closed' event of a window: when it was the last one, either
\* the pending quit completes or window-all-closed is emitted
afterClosed(ph, h, noWindows, plat) ==
  IF ~noWindows
    THEN [phase |-> ph, hk |-> h, quits |-> 0]
    ELSE IF ph = "quitting"
           THEN [phase |-> "exited", hk |-> onWillQuit(h), quits |-> 0]
           ELSE IF windowAllClosedQuits(plat)
                  THEN [phase |-> appQuit(ph, h, TRUE).phase,
                        hk |-> appQuit(ph, h, TRUE).hk, quits |-> 1]
                  ELSE [phase |-> ph, hk |-> h, quits |-> 0]

InitialStores ==
  {[k \in K |-> IF k = "server.host" THEN h ELSE p] :
     K \in SUBSET {"server.host", "server.port"},
     h \in StoredHosts, p \in StoredPorts}

\* a first installation without a stored server configuration
FreshStore == [k \in {} |-> DefaultHost]

\* the machine the application is installed on
InitEnv(plats, areas, disks) ==
  /\ platform \in plats
  /\ display \in areas
  /\ clipboard = OtherClip
  /\ \E disk \in disks : store = loadStore(disk)

\* main.js loaded for the first time
InitProcess ==
  /\ run = 1
  /\ phase = "launching"
  /\ mainWindow = NULL
  /\ windows = <<>>
  /\ created = 0
  /\ isRecording = FALSE
  /\ hk = NoHotkeys
  /\ sent = <<>>
  /\ toggleLog = <<>>
  /\ quitCalls = 0
  /\ lastSet = {}
  /\ uncaught = FALSE
  /\ last = Ev("launch")

\* either platform, the usual display, nothing stored yet
Init ==
  InitEnv(Platforms, {MainDisplay}, {FreshStore}) /\ InitProcess

\* every stored server configuration
InitStore ==
  InitEnv({"darwin"}, {MainDisplay}, InitialStores) /\ InitProcess

\* every display
InitDisplay ==
  InitEnv({"darwin"}, Displays, {FreshStore}) /\ InitProcess

\* app.whenReady().then(...): createMainWindow(); createTray(); registerHotkeys();
\* the activate handler is installed
WhenReady ==
  /\ phase = "launching"
  /\ \E free \in SUBSET Combos :
       hk' = registerHotkeys(hk, free)
  /\ windows' = createMainWindow(windows, created + 1, display)
  /\ mainWindow' = created + 1
  /\ created' = created + 1
  /\ phase' = "running"
  /\ last' = Ev("ready")
  /\ UNCHANGED <<platform, display, clipboard, store, run, isRecording, sent, toggleLog,
                 quitCalls, lastSet, uncaught>>

\* the activate signal
Activate ==
  /\ Alive
  /\ IF activateCreates(windows)
       THEN /\ created < MaxWindows
            /\ windows' = createMainWindow(windows, created + 1, display)
            /\ mainWindow' = created + 1
            /\ created' = created + 1
       ELSE UNCHANGED <<windows, mainWindow, created>>
  /\ last' = Reply("activate",
                    IF activateCreates(windows) THEN "created" ELSE "ignored")
  /\ UNCHANGED <<platform, display, clipboard, store, run, phase, isRecording, hk, sent,
                 toggleLog, quitCalls, lastSet, uncaught>>

\* a 'closed' handler that also stops the recording
WindowClosed_stopsRecording ==
  /\ Alive
  /\ \E w \in allWindows :
       LET rest == [v \in allWindows \ {w} |-> windows[v]]
           nxt == afterClosed(phase, hk, DOMAIN rest = {}, platform)
       IN  /\ windows' = rest
           /\ mainWindow' = onClosed(mainWindow)
           /\ phase' = nxt.phase
           /\ hk' = nxt.hk
           /\ quitCalls' = quitCalls + nxt.quits
  /\ isRecording' = FALSE
  /\ last' = Ev("closed")
  /\ UNCHANGED <<platform, display, clipboard, store, run, created, sent,
                 toggleLog, lastSet, uncaught>>

\* a window is closed (by the user, or by a quit in progress)
WindowClosed ==
  /\ Alive
  /\ \E w \in allWindows :
       LET rest == [v \in allWindows \ {w} |-> windows[v]]
           nxt == afterClosed(phase, hk, DOMAIN rest = {}, platform)
       IN  /\ windows' = rest
           /\ mainWindow' = onClosed(mainWindow)
           /\ phase' = nxt.phase
           /\ hk' = nxt.hk
           /\ quitCalls' = quitCalls + nxt.quits
  /\ last' = Ev("closed")
  /\ UNCHANGED <<platform, display, clipboard, store, run, created, isRecording, sent, toggleLog,
                 lastSet, uncaught>>

\* the OS delivers the RecordCombo hotkey
HotkeyRecord ==
  /\ Alive
  /\ RecordCombo \in hk.bound
  /\ Len(toggleLog) < MaxToggles
  /\ LET r == toggleRecording(isRecording, mainWindow, sent)
     IN  /\ isRecording' = r.isRecording
         /\ sent' = r.sent
  /\ toggleLog' = Append(toggleLog, mainWindow)
  /\ last' = Ev("hotkey-record")
  /\ UNCHANGED <<platform, display, clipboard, store, run, phase, mainWindow, windows, created,
                 hk, quitCalls, lastSet, uncaught>>

\* the OS delivers the WindowCombo hotkey
HotkeyWindow ==
  /\ Alive
  /\ WindowCombo \in hk.bound
  /\ LET r == toggleWindow(mainWindow, windows)
     IN  /\ windows' = r.windows
         /\ uncaught' = (uncaught \/ r.threw)
  /\ last' = Ev("hotkey-window")
  /\ UNCHANGED <<platform, display, clipboard, store, run, phase, mainWindow, created,
                 isRecording, hk, sent, toggleLog, quitCalls, lastSet>>

\* messages from the UI need a window that hosts it
UiLive == Alive /\ allWindows # {}

GetServerConfig ==
  /\ UiLive
  /\ last' = Reply("get-server-config", getServerConfig(store))
  /\ UNCHANGED <<platform, display, clipboard, store, run, phase, mainWindow, windows, created,
                 isRecording, hk, sent, toggleLog, quitCalls, lastSet,
                 uncaught>>

\* a get-settings handler that stores the default it falls back to
GetSettings_writesDefault ==
  /\ UiLive
  /\ last' = Reply("get-settings", getSettings(store))
  /\ store' = storeSet(store, "settings", getSettings(store))
  /\ UNCHANGED <<platform, display, clipboard, run, phase, mainWindow,
                 windows, created, isRecording, hk, sent, toggleLog,
                 quitCalls, lastSet, uncaught>>

GetSettings ==
  /\ UiLive
  /\ last' = Reply("get-settings", getSettings(store))
  /\ UNCHANGED <<platform, display, clipboard, store, run, phase, mainWindow, windows, created,
                 isRecording, hk, sent, toggleLog, quitCalls, lastSet,
                 uncaught>>

UpdateSettings ==
  /\ UiLive
  /\ \E S \in Docs :
       /\ store' = updateSettings(store, S)
       /\ lastSet' = {S}
  /\ last' = Ev("update-settings")
  /\ UNCHANGED <<platform, display, clipboard, run, phase, mainWindow, windows, created,
                 isRecording, hk, sent, toggleLog, quitCalls, uncaught>>

\* ipcMain.on('transcript-for-paste')
TranscriptForPaste ==
  /\ UiLive
  /\ \E text \in Texts :
       /\ clipboard' = transcriptForPaste(clipboard, text)
       /\ last' = Recv("transcript-for-paste", text)
  /\ UNCHANGED <<platform, display, store, run, phase, mainWindow, windows,
                 created, isRecording, hk, sent, toggleLog, quitCalls, lastSet,
                 uncaught>>

\* ipcMain.on('app-quit')
AppQuit ==
  /\ UiLive
  /\ quitCalls < MaxQuits
  /\ LET q == appQuit(phase, hk, allWindows = {})
     IN  phase' = q.phase /\ hk' = q.hk
  /\ quitCalls' = quitCalls + 1
  /\ last' = Ev("app-quit")
  /\ UNCHANGED <<platform, display, clipboard, store, run, mainWindow, windows, created,
                 isRecording, sent, toggleLog, lastSet, uncaught>>

\* a quit requested through the OS (application menu, dock, session end)
OsQuit ==
  /\ Alive
  /\ quitCalls < MaxQuits
  /\ LET q == appQuit(phase, hk, allWindows = {})
     IN  phase' = q.phase /\ hk' = q.hk
  /\ quitCalls' = quitCalls + 1
  /\ last' = Ev("os-quit")
  /\ UNCHANGED <<platform, display, clipboard, store, run, mainWindow, windows, created,
                 isRecording, sent, toggleLog, lastSet, uncaught>>

\* the application is started again: main.js is loaded anew
Relaunch ==
  /\ phase = "exited"
  /\ run < MaxRuns
  /\ run' = run + 1
  /\ store' = loadStore(store)
  /\ phase' = "launching"
  /\ mainWindow' = NULL
  /\ windows' = <<>>
  /\ created' = 0
  /\ isRecording' = FALSE
  /\ hk' = NoHotkeys
  /\ sent' = <<>>
  /\ toggleLog' = <<>>
  /\ quitCalls' = 0
  /\ uncaught' = FALSE
  /\ last' = Reply("launch", Label(isRecording))
  /\ UNCHANGED <<platform, display, clipboard, lastSet>>

Next ==
  \/ WhenReady
  \/ Activate
  \/ WindowClosed
  \/ HotkeyRecord
  \/ HotkeyWindow
  \/ GetServerConfig
  \/ GetSettings
  \/ UpdateSettings
  \/ TranscriptForPaste
  \/ AppQuit
  \/ OsQuit
  \/ Relaunch

Spec == Init /\ [][Next]_vars
SpecStore == InitStore /\ [][Next]_vars
SpecDisplay == InitDisplay /\ [][Next]_vars

TypeOK ==
  /\ platform \in Platforms
  /\ display \in Displays
  /\ clipboard \in Texts \cup {OtherClip}
  /\ run \in 1..MaxRuns
  /\ phase \in {"launching", "running", "quitting", "exited"}
  /\ mainWindow \in 0..MaxWindows
  /\ created \in 0..MaxWindows
  /\ allWindows \subseteq 1..created
  /\ isRecording \in BOOLEAN
  /\ hk.bound \subseteq Combos
  /\ Len(toggleLog) <= MaxToggles
  /\ lastSet \subseteq Docs
  /\ uncaught \in BOOLEAN
\* ------------------------------------------------------------------ claims
Toggles == Len(toggleLog)

\* the step is a toggleRecording() call
ToggleStep == Len(toggleLog') = Len(toggleLog) + 1

\* the messages sent to window w, and the toggles made while w was the handle
Inbox(w) == SelectSeq(sent, LAMBDA m : m.to = w)
TogglesWhile(w) == SelectSeq(toggleLog, LAMBDA h : h = w)

\* C1: after an odd number of toggleRecording() calls since process start the
\* state is Listening, after an even number it is Idle, whatever other events
\* are interleaved.
C1_Alternates ==
  isRecording = (Toggles % 2 = 1)

C1_Witness ==
  /\ Toggles = 2
  /\ ~isRecording
  /\ created = 2
  /\ NULL \in {toggleLog[i] : i \in 1..Toggles}

\* C2: a toggleRecording() call made while the handle refers to a window sends
\* that window exactly two messages and nothing else: toggle-recording with the
\* new flag, then state-change with "listening" for true and "idle" for false.
C2_TwoMessagesInOrder ==
  [][(ToggleStep /\ mainWindow # NULL) =>
       LET n == Len(sent)
       IN  /\ Len(sent') = n + 2
           /\ SubSeq(sent', 1, n) = sent
           /\ sent'[n + 1].to = mainWindow
           /\ sent'[n + 1].channel = "toggle-recording"
           /\ sent'[n + 1].arg = isRecording'
           /\ sent'[n + 2].to = mainWindow
           /\ sent'[n + 2].channel = "state-change"
           /\ sent'[n + 2].arg = (IF isRecording' THEN "listening" ELSE "idle")
    ]_vars

C2_Witness ==
  /\ last.ev = "hotkey-record"
  /\ mainWindow # NULL
  /\ Len(sent) = 4
  /\ sent[3].channel = "toggle-recording"
  /\ sent[3].arg = FALSE
  /\ sent[4].channel = "state-change"
  /\ sent[4].arg = "idle"

\* C3: a toggleRecording() call made while the handle is null flips the flag
\* and sends nothing; nothing is kept for later: every window has received
\* exactly two messages per toggle made while it was the handle, and no message
\* is addressed to a missing window.
C3_Dropped ==
  /\ Inbox(NULL) = <<>>
  /\ \A w \in 1..created : Len(Inbox(w)) = 2 * Len(TogglesWhile(w))

\* C3, with the step itself: the state part above holds after every step, and
\* a toggle with a null handle flips the flag and leaves the sends as they were.
C3_DroppedNotQueued ==
  [][/\ C3_Dropped'
     /\ (ToggleStep /\ mainWindow = NULL) =>
          (isRecording' = ~isRecording /\ Len(sent') = Len(sent))
    ]_vars

C3_Witness ==
  /\ toggleLog = <<NULL>>
  /\ isRecording
  /\ created = 2
  /\ mainWindow = 2
  /\ sent = <<>>
  /\ last.ev = "activate"

\* C4: at most one window exists, and the handle refers to the live window
\* exactly when there is one (an activate signal creates a window only when
\* none exists).
C4_SingleWindow ==
  /\ Cardinality(allWindows) <= 1
  /\ allWindows = (IF mainWindow = NULL THEN {} ELSE {mainWindow})

C4_Witness ==
  /\ last.ev = "activate"
  /\ last.ret = "ignored"
  /\ created = 2
  /\ allWindows = {2}

\* C5: get-settings answers exactly the document of the last update-settings
\* (nothing of an earlier document is merged in), and the empty mapping when
\* there has been no update-settings.
C5_GetAfterUpdate ==
  last.ev = "get-settings" =>
    /\ lastSet = {} => last.ret = EmptyDoc
    /\ \A S \in lastSet : last.ret = S

C5_Witness ==
  /\ last.ev = "get-settings"
  /\ lastSet = {[k \in {"theme"} |-> "a"]}
  /\ last.ret = [k \in {"theme"} |-> "a"]
  /\ run = 1

\* C6: a new process run starts Idle whatever the state of the previous run
\* was, and finds the settings document the previous run stored: get-settings
\* in a later run answers the last document stored.
C6_SettingsSurviveRestart ==
  [][/\ (run' = run + 1) =>
          /\ isRecording' = FALSE
          /\ \A S \in lastSet : getSettings(store') = S
     /\ (run' > 1 /\ last'.ev = "get-settings") =>
          \A S \in lastSet' : last'.ret = S
    ]_vars

C6_Witness ==
  /\ run = 2
  /\ last.ev = "launch"
  /\ last.ret = "listening"
  /\ ~isRecording
  /\ lastSet = {[k \in {"theme"} |-> "a"]}
  /\ getSettings(store) = [k \in {"theme"} |-> "a"]

\* C7: get-server-config answers, for each field independently, the stored
\* value when present and the default ("127.0.0.1", 9876) when absent.
C7_ServerConfigDefaults ==
  last.ev = "get-server-config" =>
    /\ last.ret.host = (IF "server.host" \in DOMAIN store
                          THEN store["server.host"] ELSE "127.0.0.1")
    /\ last.ret.port = (IF "server.port" \in DOMAIN store
                          THEN store["server.port"] ELSE 9876)

C7_Witness ==
  /\ last.ev = "get-server-config"
  /\ "server.host" \in DOMAIN store
  /\ "server.port" \notin DOMAIN store
  /\ last.ret.host = "10.0.0.5"
  /\ last.ret.port = 9876

\* C8: unregisterAll() has run exactly once when the process has exited and
\* not at all before, also when quit was requested more than once; at exit no
\* combination is bound; no register call is made once a quit is in progress.
C8_UnregisteredOnce ==
  /\ hk.unregCalls = (IF phase = "exited" THEN 1 ELSE 0)
  /\ phase = "exited" => hk.bound = {}

\* C8, with the step itself: the state part above holds after every step, and
\* the register log does not grow once a quit is in progress.
C8_Shutdown ==
  [][/\ C8_UnregisteredOnce'
     /\ (phase \in {"quitting", "exited"} /\ run' = run) =>
          hk'.regLog = hk.regLog
    ]_vars

C8_Witness ==
  /\ phase = "exited"
  /\ quitCalls >= 2
  /\ hk.unregCalls = 1
  /\ Len(hk.regLog) = 2
  /\ hk.regLog[1].ok
  /\ hk.regLog[2].ok
  /\ hk.bound = {}

\* C9: the toggle-window hotkey with a null handle changes nothing and throws
\* nothing; with a window it hides a visible window and shows a hidden one.
C9_ToggleVisibility ==
  [][last'.ev = "hotkey-window" =>
       /\ ~uncaught'
       /\ UNCHANGED <<platform, display, clipboard, store, run, phase, mainWindow, created,
                      isRecording, hk, sent, toggleLog, quitCalls, lastSet>>
       /\ IF mainWindow = NULL
            THEN windows' = windows
            ELSE /\ DOMAIN windows' = DOMAIN windows
                 /\ windows'[mainWindow].visible = ~windows[mainWindow].visible
    ]_vars

C9_Witness ==
  /\ last.ev = "hotkey-window"
  /\ mainWindow = NULL
  /\ allWindows = {}
  /\ ~uncaught
  /\ phase = "running"

\* C10: whatever the outcomes of the two registrations, the window is created,
\* both combinations are attempted exactly once each, a combination is bound
\* exactly when its registration succeeded, and nothing is retried.
C10_RegistrationIsolated ==
  phase # "launching" =>
    /\ created >= 1
    /\ Len(hk.regLog) = 2
    /\ hk.regLog[1].combo = RecordCombo
    /\ hk.regLog[2].combo = WindowCombo
    /\ Alive => hk.bound = {hk.regLog[i].combo : i \in {j \in 1..2 : hk.regLog[j].ok}}

C10_Witness ==
  /\ Len(hk.regLog) = 2
  /\ ~hk.regLog[1].ok
  /\ hk.regLog[2].ok
  /\ hk.bound = {WindowCombo}
  /\ last.ev = "hotkey-window"
  /\ created = 2

\* C11: every registration that failed has been reported, for either default
\* combination.
C11_FailuresReported ==
  \A i \in 1..Len(hk.regLog) :
    ~hk.regLog[i].ok => hk.regLog[i].combo \in hk.reported

\* C12 as claimed: after transcript-for-paste(text) the clipboard holds text,
\* for every text.
C12_ClipboardHoldsText ==
  last.ev = "transcript-for-paste" => clipboard = last.arg

\* C12 as amended: a non-empty text is on the clipboard after
\* transcript-for-paste(text), an empty text leaves the clipboard as it was;
\* either way nothing is replied or sent to the UI.
C12_NonEmptyTextCopied ==
  [][last'.ev = "transcript-for-paste" =>
       /\ IF last'.arg # ""
            THEN clipboard' = last'.arg
            ELSE clipboard' = clipboard
       /\ last'.ret = NoReply
       /\ sent' = sent
    ]_vars

C12_Witness ==
  /\ last.ev = "transcript-for-paste"
  /\ last.arg = "hello"
  /\ clipboard = "hello"

\* C13: a window created on a display with work area (W, H) is at
\* (W - 420, H - 620), has size (400, 600) and is visible.
C13_WindowPlacement ==
  [][created' = created + 1 =>
       /\ windows'[created'].x = display[1] - 420
       /\ windows'[created'].y = display[2] - 620
       /\ windows'[created'].width = 400
       /\ windows'[created'].height = 600
       /\ windows'[created'].visible
    ]_vars

C13_Witness ==
  /\ display = <<1920, 1080>>
  /\ last.ev = "activate"
  /\ created = 2
  /\ windows[2].x = 1500
  /\ windows[2].y = 460
  /\ windows[2].width = 400
  /\ windows[2].height = 600
  /\ windows[2].visible

\* C14 as claimed: the closed signal clears the handle and the process keeps
\* running with its hotkeys bound after every close.
C14_KeepsRunningAfterClose ==
  [][last'.ev = "closed" =>
       /\ mainWindow' = NULL
       /\ phase' \in {"running", "quitting"}
       /\ hk'.bound = hk.bound
    ]_vars

\* C14 as amended: the closed signal clears the handle; an activate signal
\* creates a window exactly when none exists; a recording hotkey press flips
\* the flag with or without a window; on macOS, with no quit in progress, the
\* process keeps running with its hotkeys bound after a close.
C14_WindowLifecycle ==
  [][/\ last'.ev = "closed" => mainWindow' = NULL
     /\ last'.ev = "activate" =>
          /\ (created' = created + 1) <=> (allWindows = {})
          /\ (allWindows = {}) => (mainWindow' = created' /\ DOMAIN windows' = {created'})
          /\ (allWindows # {}) => (mainWindow' = mainWindow /\ windows' = windows)
     /\ last'.ev = "hotkey-record" => isRecording' = ~isRecording
     /\ (last'.ev = "closed" /\ platform = "darwin" /\ phase = "running") =>
          (phase' = "running" /\ hk'.bound = hk.bound)
    ]_vars

C14_Witness ==
  /\ platform = "darwin"
  /\ phase = "running"
  /\ last.ev = "hotkey-record"
  /\ created = 2
  /\ mainWindow = 2
  /\ toggleLog = <<NULL, 2>>
  /\ ~isRecording
  /\ hk.bound = {RecordCombo, WindowCombo}

\* C15: within a process run the recording flag changes only in a
\* toggleRecording() call, and it is always a boolean (Idle or Listening).
C15_OnlyToggleChanges ==
  [][/\ isRecording' \in BOOLEAN
     /\ (run' = run /\ last'.ev # "hotkey-record") => isRecording' = isRecording
    ]_vars

C15_Witness ==
  /\ isRecording
  /\ Toggles = 1
  /\ created = 2
  /\ clipboard = "hello"
  /\ lastSet # {}
  /\ last.ev = "hotkey-window"

\* C16: get-settings and get-server-config leave the store as it was (a default
\* that is returned is not written), and the same request repeated at once gets
\* the same answer.
C16_ReadsArePure ==
  [][last'.ev \in {"get-settings", "get-server-config"} =>
       /\ store' = store
       /\ last.ev = last'.ev => last'.ret = last.ret
    ]_vars

C16_Witness ==
  /\ last.ev = "get-settings"
  /\ last.ret = EmptyDoc
  /\ "settings" \notin DOMAIN store
  /\ "server.port" \notin DOMAIN store

\* C17: only the toggle-recording and toggle-window combinations are ever
\* bound, the paste combination never, and each is registered at most once in
\* a process run.
C17_PasteNeverBound ==
  /\ hk.bound \subseteq {RecordCombo, WindowCombo}
  /\ \A c \in Combos :
       Cardinality({i \in 1..Len(hk.regLog) :
                      hk.regLog[i].combo = c /\ hk.regLog[i].ok}) <= 1

C17_Witness ==
  /\ run = 2
  /\ phase = "running"
  /\ hk.bound = {RecordCombo, WindowCombo}
  /\ Len(hk.regLog) = 2

\* C18: when the live window has received a state-change since its creation,
\* the last state-change it received carries the label of the current flag and
\* the last toggle-recording carries the flag.
C18_LastNotificationCurrent ==
  (mainWindow # NULL /\ Inbox(mainWindow) # <<>>) =>
    LET ib == Inbox(mainWindow)
        n == Len(ib)
    IN  /\ n >= 2
        /\ ib[n].channel = "state-change"
        /\ ib[n].arg = (IF isRecording THEN "listening" ELSE "idle")
        /\ ib[n - 1].channel = "toggle-recording"
        /\ ib[n - 1].arg = isRecording

C18_Witness ==
  /\ mainWindow = 2
  /\ toggleLog = <<NULL, 2>>
  /\ Len(Inbox(2)) = 2
  /\ ~isRecording
  /\ Inbox(2)[2].arg = "idle"

\* C19: off macOS the close of the last window ends the process in the same
\* step, after unregisterAll(); nothing but a new process start follows the
\* exit; only on macOS is the process alive with a null handle, and there a
\* close with no quit in progress leaves the hotkeys bound.
C19_CloseQuitsOffMac ==
  [][/\ (last'.ev = "closed" /\ platform # "darwin") =>
          (phase' = "exited" /\ hk'.unregCalls = 1 /\ hk'.bound = {})
     /\ (last'.ev = "closed" /\ platform = "darwin" /\ phase = "running") =>
          (phase' = "running" /\ mainWindow' = NULL /\ hk'.bound = hk.bound)
     /\ phase = "exited" => run' = run + 1
     /\ (phase' \in {"running", "quitting"} /\ mainWindow' = NULL) =>
          platform = "darwin"
    ]_vars

C19_Witness ==
  /\ platform = "linux"
  /\ last.ev = "closed"
  /\ phase = "exited"
  /\ quitCalls = 1
  /\ hk.unregCalls = 1
  /\ Len(hk.regLog) = 2
  /\ hk.regLog[1].ok

\* C20: update-settings changes the value under the key settings and nothing
\* else, so get-server-config answers the same before and after; a toggle, a
\* visibility change and transcript-for-paste leave the store as it was.
C20_SettingsIndependent ==
  [][/\ last'.ev = "update-settings" =>
          /\ DOMAIN store' = DOMAIN store \cup {"settings"}
          /\ \A k \in DOMAIN store \ {"settings"} : store'[k] = store[k]
          /\ getServerConfig(store') = getServerConfig(store)
     /\ last'.ev \in {"hotkey-record", "hotkey-window", "transcript-for-paste"} =>
          store' = store
    ]_vars

C20_Witness ==
  /\ last.ev = "update-settings"
  /\ lastSet = {[k \in {"theme"} |-> "a"]}
  /\ "server.host" \in DOMAIN store
  /\ "server.port" \notin DOMAIN store
  /\ getServerConfig(store) = [host |-> "10.0.0.5", port |-> 9876]
====
